---------------------------- MODULE Spec2Model ----------------------------
(***************************************************************************)
(* The ARIS risk engine (backend/data_pipeline/risk_engine.py) as a state  *)
(* machine: the three cleaned CSV files are its input, main() runs         *)
(* build_features and then the two writes of save_outputs, and the two     *)
(* risk tables on disk are its output.  Before it run the cleaning         *)
(* pipeline (backend/data_pipeline/clean_data.py), which fetches the three *)
(* families and writes the cleaned files, and the paginated fetch of one   *)
(* family (backend/api_clients/uidai_api.py).                              *)
(*                                                                         *)
(* A DataFrame is [columns |-> set of column names, rows |-> sequence of   *)
(* rows]; a row is a function from column names to cell values, and a NaN  *)
(* cell is a column of the frame that is absent from the row's domain.     *)
(* Floating-point columns are exact rationals <<numerator, denominator>>   *)
(* with a positive denominator, kept in lowest terms; risk_percent, which  *)
(* the code rounds to two decimals, is an integer number of hundredths of  *)
(* a percent until the rollup averages it.                                 *)
(***************************************************************************)
EXTENDS Integers, Sequences, FiniteSets

VARIABLES
    bioFile,        \* data/cleaned/biometric_cleaned.csv
    demoFile,       \* data/cleaned/demographic_cleaned.csv
    enrolFile,      \* data/cleaned/enrolment_cleaned.csv
    districtFile,   \* data/processed/district_risk.csv
    stateFile,      \* data/processed/state_risk.csv
    pc,             \* where main() stands
    run,            \* number of invocations of main() so far
    frames,         \* build_features' locals: bio_agg, demo_agg, enrol_agg, merged, df
    err,            \* the exception that ended the run, if any
    last,           \* history: both output files as the last completed run before
                    \* the current one left them
    pipeline,       \* clean_data.main(): where it stands, what it fetched, and which
                    \* of its runs wrote each cleaned file
    fetch,          \* fetch_uidai_data(): its loop variables and what it returned
    remote          \* the data.gov.in resource: the records it holds per (year, month)

vars == <<bioFile, demoFile, enrolFile, districtFile, stateFile, pc, run,
          frames, err, last, pipeline, fetch, remote>>

----------------------------------------------------------------------------
(* Bounds of the model *)

MaxRows == 1        \* raw rows a cleaned file holds beyond those of the base file
MaxCount == 1       \* largest raw count in a cell
MaxMonth == 2       \* months 1..MaxMonth of the one year
MaxRuns == 2        \* invocations of main()
MaxPipelineRuns == 2    \* invocations of clean_data.main()
MaxFetchMonth == 1  \* months 1..MaxFetchMonth of each year that are fetched
MaxTotal == 3       \* records the resource holds for one (year, month), if finitely many
limit == 2          \* records per page

----------------------------------------------------------------------------
(* Sequences and sets *)

RECURSIVE SeqsUpTo(_, _)
SeqsUpTo(S, n) ==
    IF n = 0 THEN {<<>>}
    ELSE LET shorter == SeqsUpTo(S, n - 1)
         IN  shorter \cup {Append(s, x) : s \in {t \in shorter : Len(t) = n - 1}, x \in S}

RECURSIVE Concat(_)
Concat(ss) == IF ss = <<>> THEN <<>> ELSE Head(ss) \o Concat(Tail(ss))

Range(s) == {s[i] : i \in DOMAIN s}

----------------------------------------------------------------------------
(* Exact arithmetic standing for the float64 columns *)

RECURSIVE GCD(_, _)
GCD(a, b) == IF b = 0 THEN a ELSE GCD(b, a % b)

Abs(x) == IF x < 0 THEN -x ELSE x

RNorm(q) ==
    LET g == GCD(Abs(q[1]), q[2])
    IN  <<q[1] \div g, q[2] \div g>>

RInt(n) == <<n, 1>>
RDivInt(n, d) == RNorm(<<n, d>>)
RAdd(a, b) == RNorm(<<a[1] * b[2] + b[1] * a[2], a[2] * b[2]>>)
RSub(a, b) == RNorm(<<a[1] * b[2] - b[1] * a[2], a[2] * b[2]>>)
RScale(k, a) == RNorm(<<k * a[1], a[2]>>)
RDiv(a, b) ==
    IF b[1] > 0 THEN RNorm(<<a[1] * b[2], a[2] * b[1]>>)
                ELSE RNorm(<<-(a[1] * b[2]), a[2] * (-b[1])>>)
RAbs(a) == <<Abs(a[1]), a[2]>>
RLess(a, b) == a[1] * b[2] < b[1] * a[2]
RLeq(a, b) == a[1] * b[2] <= b[1] * a[2]

RECURSIVE RSum(_)
RSum(qs) == IF qs = <<>> THEN RInt(0) ELSE RAdd(Head(qs), RSum(Tail(qs)))

\* numpy's round: to the nearest integer, a half to the even neighbour
RoundHalfEven(q) ==
    LET fl == q[1] \div q[2]
        twice == 2 * (q[1] - fl * q[2])
    IN  IF twice < q[2] THEN fl
        ELSE IF twice > q[2] THEN fl + 1
        ELSE IF fl % 2 = 0 THEN fl ELSE fl + 1

----------------------------------------------------------------------------
(* DataFrame operations of pandas that the engine calls *)

KeyCols == <<"state", "district", "year", "month">>
RegionCols == <<"state", "district">>

\* Position of a name in the lexicographic order of strings
NameRank(s) ==
    CASE s = "D1" -> 1 [] s = "D2" -> 2 [] s = "S1" -> 3 [] s = "S2" -> 4

CellLess(c, a, b) ==
    IF c \in {"state", "district"} THEN NameRank(a) < NameRank(b) ELSE a < b

\* Lexicographic order of two rows on the columns by[from..]
RECURSIVE RowLess(_, _, _, _)
RowLess(by, from, a, b) ==
    IF from > Len(by) THEN FALSE
    ELSE LET c == by[from]
         IN  \/ CellLess(c, a[c], b[c])
             \/ a[c] = b[c] /\ RowLess(by, from + 1, a, b)

KeyOf(row, by) == [j \in DOMAIN by |-> row[by[j]]]

SameKey(a, b, by) == \A j \in DOMAIN by : a[by[j]] = b[by[j]]

\* x put behind every element of the sorted s that is not after x in the order on by
RECURSIVE InsertBy(_, _, _)
InsertBy(x, s, by) ==
    IF s = <<>> THEN <<x>>
    ELSE IF RowLess(by, 1, x, Head(s)) THEN <<x>> \o s
    ELSE <<Head(s)>> \o InsertBy(x, Tail(s), by)

\* A stable sort: rows equal on by keep the order they had in s
RECURSIVE StableSort(_, _)
StableSort(s, by) ==
    IF s = <<>> THEN <<>>
    ELSE InsertBy(s[Len(s)], StableSort(SubSeq(s, 1, Len(s) - 1), by), by)

\* DataFrame.sort_values(by), ascending
SortValues(frame, by) == [frame EXCEPT !.rows = StableSort(@, by)]

\* GroupSums as it would be if a later row of a group replaced the earlier ones
RECURSIVE GroupLast(_, _, _, _)
GroupLast(rows, i, by, vals) ==
    IF i = 0 THEN [k \in {} |-> <<>>]
    ELSE LET acc == GroupLast(rows, i - 1, by, vals)
             k == KeyOf(rows[i], by)
             add == [c \in vals |-> rows[i][c]]
         IN  [x \in DOMAIN acc \cup {k} |-> IF x = k THEN add ELSE acc[x]]

\* The groups of rows[1..i] and, per group, the running sum of every column of vals
RECURSIVE GroupSums(_, _, _, _)
GroupSums(rows, i, by, vals) ==
    IF i = 0 THEN [k \in {} |-> <<>>]
    ELSE LET acc == GroupSums(rows, i - 1, by, vals)
             k == KeyOf(rows[i], by)
             add == [c \in vals |-> rows[i][c]]
         IN  IF k \in DOMAIN acc
             THEN [acc EXCEPT ![k] = [c \in vals |-> @[c] + add[c]]]
             ELSE [x \in DOMAIN acc \cup {k} |-> IF x = k THEN add ELSE acc[x]]

\* frame.groupby(by, as_index=False).agg(c=(c, "sum") for c in vals):
\* one row per group, the groups in ascending order of their key
GroupBySum(frame, by, vals) ==
    LET acc == GroupSums(frame.rows, Len(frame.rows), by, vals)
        out(k) == [c \in Range(by) \cup vals |->
                      IF c \in vals THEN acc[k][c]
                      ELSE k[CHOOSE j \in DOMAIN by : by[j] = c]]
        RECURSIVE Emit(_)
        Emit(ks) == IF ks = {} THEN <<>>
                    ELSE LET k == CHOOSE x \in ks : TRUE
                         IN  <<out(k)>> \o Emit(ks \ {k})
    IN  SortValues([columns |-> Range(by) \cup vals, rows |-> Emit(DOMAIN acc)], by)

\* left.merge(right, on=by) as it would be with the default how="inner"
MergeInner(left, right, by) ==
    LET extra == right.columns \ Range(by)
        joined(l, r) == [c \in DOMAIN l \cup extra |-> IF c \in DOMAIN l THEN l[c] ELSE r[c]]
        matches(l) == SelectSeq(right.rows, LAMBDA r : SameKey(l, r, by))
        expand(l) == [i \in DOMAIN matches(l) |-> joined(l, matches(l)[i])]
    IN  [columns |-> left.columns \cup right.columns,
         rows |-> Concat([i \in DOMAIN left.rows |-> expand(left.rows[i])])]

\* left.merge(right, on=by, how="left"): the rows of left in their order, each
\* once per row of right with its key, or once with right's columns NaN
MergeLeft(left, right, by) ==
    LET extra == right.columns \ Range(by)
        joined(l, r) == [c \in DOMAIN l \cup extra |-> IF c \in DOMAIN l THEN l[c] ELSE r[c]]
        matches(l) == SelectSeq(right.rows, LAMBDA r : SameKey(l, r, by))
        expand(l) == IF matches(l) = <<>> THEN <<l>>
                     ELSE [i \in DOMAIN matches(l) |-> joined(l, matches(l)[i])]
    IN  [columns |-> left.columns \cup right.columns,
         rows |-> Concat([i \in DOMAIN left.rows |-> expand(left.rows[i])])]

\* DataFrame.fillna(v)
FillNa(frame, v) ==
    [frame EXCEPT !.rows =
        [i \in DOMAIN @ |-> [c \in frame.columns |->
            IF c \in DOMAIN @[i] THEN @[i][c] ELSE v]]]

\* The row with the columns of new added (or assigned anew)
WithCols(row, new) ==
    [c \in DOMAIN row \cup DOMAIN new |-> IF c \in DOMAIN new THEN new[c] ELSE row[c]]

\* A float64 that may be NaN or infinite
Num(q) == [kind |-> "num", val |-> q]
NaN == [kind |-> "nan", val |-> RInt(0)]
Inf == [kind |-> "inf", val |-> RInt(0)]

\* Index of the row before rows[i] in its group (the rows with its key on by), 0 if none
PrevInGroup(rows, i, by) ==
    LET before == {j \in 1..(i - 1) : SameKey(rows[j], rows[i], by)}
    IN  IF before = {} THEN 0 ELSE CHOOSE j \in before : \A k \in before : k <= j

\* PctChange as it would be without the groupby: prev is the row just above
PctChangeUngrouped(frame, by, col) ==
    [i \in DOMAIN frame.rows |->
        LET cur == frame.rows[i][col]
        IN  IF i = 1 THEN NaN
            ELSE LET prev == frame.rows[i - 1][col]
                 IN  IF prev[1] = 0 THEN (IF cur[1] = 0 THEN NaN ELSE Inf)
                     ELSE Num(RSub(RDiv(cur, prev), RInt(1)))]

\* frame.groupby(by)[col].pct_change(): cur / prev - 1 per row, prev the value of the
\* row before it in its group; NaN for the first row of a group and for 0 / 0
PctChange(frame, by, col) ==
    [i \in DOMAIN frame.rows |->
        LET p == PrevInGroup(frame.rows, i, by)
            cur == frame.rows[i][col]
        IN  IF p = 0 THEN NaN
            ELSE LET prev == frame.rows[p][col]
                 IN  IF prev[1] = 0 THEN (IF cur[1] = 0 THEN NaN ELSE Inf)
                     ELSE Num(RSub(RDiv(cur, prev), RInt(1)))]

\* Series.replace([np.inf, -np.inf], v)
ReplaceInf(series, v) ==
    [i \in DOMAIN series |-> IF series[i].kind = "inf" THEN Num(v) ELSE series[i]]

\* Series.fillna(v)
SeriesFillNa(series, v) ==
    [i \in DOMAIN series |-> IF series[i].kind = "nan" THEN Num(v) ELSE series[i]]

\* Series.abs()
SeriesAbs(series) ==
    [i \in DOMAIN series |-> [series[i] EXCEPT !.val = RAbs(@)]]

\* Position of values[i] once values is sorted ascending by a stable sort
SortedPosition(values, i) ==
    1 + Cardinality({j \in DOMAIN values : RLess(values[j], values[i])})
      + Cardinality({j \in 1..(i - 1) : values[j] = values[i]})

\* Series.rank() as it would be without pct=True: the average rank, not divided
RankAverage(values) ==
    [i \in DOMAIN values |->
        LET idx == [j \in DOMAIN values |-> j]
            tied == SelectSeq(idx, LAMBDA j : values[j] = values[i])
            positions == [k \in DOMAIN tied |-> RInt(SortedPosition(values, tied[k]))]
        IN  RDiv(RSum(positions), RInt(Len(tied)))]

\* Series.rank(pct=True) as it would be with method "first": equal values are
\* ranked in the order they appear
RankPctFirst(values) ==
    [i \in DOMAIN values |-> RDiv(RInt(SortedPosition(values, i)), RInt(Len(values)))]

\* Series.rank(pct=True), method "average": the mean of the sorted positions of the
\* values equal to values[i], divided by the number of values
RankPct(values) ==
    [i \in DOMAIN values |->
        LET idx == [j \in DOMAIN values |-> j]
            tied == SelectSeq(idx, LAMBDA j : values[j] = values[i])
            positions == [k \in DOMAIN tied |-> RInt(SortedPosition(values, tied[k]))]
        IN  RDiv(RDiv(RSum(positions), RInt(Len(tied))), RInt(Len(values)))]

\* Series.round(2)
Round2(q) == RDivInt(RoundHalfEven(RScale(100, q)), 100)

----------------------------------------------------------------------------
(* build_features *)

BioCounts == {"bio_5_17", "bio_17_plus"}
DemoCounts == {"demo_5_17", "demo_17_plus"}
EnrolCounts == {"enrolment_count"}

EmptyFrame == [columns |-> {}, rows |-> <<>>]
NoError == [type |-> "none", missing |-> {}, present |-> {}]

\* The KeyError pandas raises: its message names the labels it did not find
KeyError(labels) == [type |-> "KeyError", missing |-> labels, present |-> {}]

\* frame.groupby(KeyCols, as_index=False).agg(...) of lines 51-75: groupby raises on
\* the first key that is no column, agg on the aggregated columns that are none
Aggregate(frame, vals) ==
    LET nokey == {j \in DOMAIN KeyCols : KeyCols[j] \notin frame.columns}
        first == CHOOSE j \in nokey : \A k \in nokey : j <= k
    IN  IF nokey # {} THEN [err |-> KeyError({KeyCols[first]}), frame |-> EmptyFrame]
        ELSE IF vals \ frame.columns # {}
        THEN [err |-> KeyError(vals \ frame.columns), frame |-> EmptyFrame]
        ELSE [err |-> NoError, frame |-> GroupBySum(frame, KeyCols, vals)]

\* Lines 80-87: both left merges onto bio_agg, then fillna(0)
Merged(bio_agg, demo_agg, enrol_agg) ==
    FillNa(MergeLeft(MergeLeft(bio_agg, demo_agg, KeyCols), enrol_agg, KeyCols), 0)

\* Lines 94-103: totals, update rates and age skews of one row
Indicators(row) ==
    LET total_bio == row["bio_5_17"] + row["bio_17_plus"]
        total_demo == row["demo_5_17"] + row["demo_17_plus"]
    IN  WithCols(row,
          [total_bio_updates |-> total_bio,
           total_demo_updates |-> total_demo,
           bio_update_rate |-> RDivInt(total_bio, row["enrolment_count"] + 1),
           demo_update_rate |-> RDivInt(total_demo, row["enrolment_count"] + 1),
           bio_age_skew |-> RDivInt(row["bio_5_17"], row["bio_17_plus"] + 1),
           demo_age_skew |-> RDivInt(row["demo_5_17"], row["demo_17_plus"] + 1)])

\* Lines 110-124: month-over-month change of the column col, per (state, district)
MomChange(frame, col) ==
    SeriesAbs(SeriesFillNa(ReplaceInf(PctChange(frame, RegionCols, col), RInt(0)), RInt(0)))

\* The weights of lines 130-134, in hundredths
BioRateWeight == 30
DemoRateWeight == 25
BioSkewWeight == 20
DemoSkewWeight == 15
MomWeight == 10

\* Lines 129-135
RiskSignal(row) ==
    RDiv(RSum(<<RScale(BioRateWeight, row["bio_update_rate"]),
                RScale(DemoRateWeight, row["demo_update_rate"]),
                RScale(BioSkewWeight, row["bio_age_skew"]),
                RScale(DemoSkewWeight, row["demo_age_skew"]),
                RScale(MomWeight, RAdd(row["bio_mom_change"], row["demo_mom_change"]))>>),
         RInt(100))

\* RiskPercent as it would be without "* 100"
RiskPercentUnscaled(rows) ==
    LET pct == RankPct([i \in DOMAIN rows |-> rows[i]["risk_signal"]])
    IN  [i \in DOMAIN rows |-> Round2(pct[i])]

\* RiskPercent as it would be with the rank taken per state
RiskPercentPerState(rows) ==
    [i \in DOMAIN rows |->
        LET idx == [j \in DOMAIN rows |-> j]
            mine == SelectSeq(idx, LAMBDA j : rows[j]["state"] = rows[i]["state"])
            me == CHOOSE k \in DOMAIN mine : mine[k] = i
            pct == RankPct([k \in DOMAIN mine |-> rows[mine[k]]["risk_signal"]])
        IN  Round2(RScale(100, pct[me]))]

\* Lines 140-142: (df["risk_signal"].rank(pct=True) * 100).round(2), the rank taken
\* over all rows of df
RiskPercent(rows) ==
    LET pct == RankPct([i \in DOMAIN rows |-> rows[i]["risk_signal"]])
    IN  [i \in DOMAIN rows |-> Round2(RScale(100, pct[i]))]

\* Lines 94-144 on the merged frame
Features(merged) ==
    LET base == SortValues(
                  [columns |-> merged.columns \cup
                        {"total_bio_updates", "total_demo_updates", "bio_update_rate",
                         "demo_update_rate", "bio_age_skew", "demo_age_skew"},
                   rows |-> [i \in DOMAIN merged.rows |-> Indicators(merged.rows[i])]],
                  KeyCols)
        bio_mom == MomChange(base, "bio_update_rate")
        demo_mom == MomChange(base, "demo_update_rate")
        moved == [i \in DOMAIN base.rows |->
                    WithCols(base.rows[i], [bio_mom_change |-> bio_mom[i].val,
                                            demo_mom_change |-> demo_mom[i].val])]
        scored == [i \in DOMAIN moved |->
                    WithCols(moved[i], [risk_signal |-> RiskSignal(moved[i])])]
        percent == RiskPercent(scored)
    IN  [columns |-> base.columns \cup
                        {"bio_mom_change", "demo_mom_change", "risk_signal", "risk_percent"},
         rows |-> [i \in DOMAIN scored |->
                    WithCols(scored[i], [risk_percent |-> percent[i]])]]

\* build_features(), lines 41-144, on the three loaded frames: its locals and the
\* exception it raised, if any
BuildFeaturesOf(bio, demo, enrol) ==
    LET b == Aggregate(bio, BioCounts)
        d == Aggregate(demo, DemoCounts)
        e == Aggregate(enrol, EnrolCounts)
        failed == IF b.err # NoError THEN b.err
                  ELSE IF d.err # NoError THEN d.err ELSE e.err
        bio_agg == b.frame
        demo_agg == IF b.err = NoError THEN d.frame ELSE EmptyFrame
        enrol_agg == IF b.err = NoError /\ d.err = NoError THEN e.frame ELSE EmptyFrame
        merged == Merged(bio_agg, demo_agg, enrol_agg)
    IN  [err |-> failed, bio_agg |-> bio_agg, demo_agg |-> demo_agg,
         enrol_agg |-> enrol_agg,
         merged |-> IF failed = NoError THEN merged ELSE EmptyFrame,
         df |-> IF failed = NoError THEN Features(merged) ELSE EmptyFrame]

----------------------------------------------------------------------------
(* save_outputs *)

\* The groups of rows[1..i] and, per group, the sum and the number of its values of col
RECURSIVE GroupMeans(_, _, _, _)
GroupMeans(rows, i, by, col) ==
    IF i = 0 THEN [k \in {} |-> <<>>]
    ELSE LET acc == GroupMeans(rows, i - 1, by, col)
             k == KeyOf(rows[i], by)
         IN  IF k \in DOMAIN acc
             THEN [acc EXCEPT ![k] = [sum |-> RAdd(@.sum, rows[i][col]), count |-> @.count + 1]]
             ELSE [x \in DOMAIN acc \cup {k} |->
                     IF x = k THEN [sum |-> rows[i][col], count |-> 1] ELSE acc[x]]

\* frame.groupby(by, as_index=False).agg(col=(col, "mean"))
GroupByMean(frame, by, col) ==
    LET acc == GroupMeans(frame.rows, Len(frame.rows), by, col)
        out(k) == [c \in Range(by) \cup {col} |->
                      IF c = col THEN RDiv(acc[k].sum, RInt(acc[k].count))
                      ELSE k[CHOOSE j \in DOMAIN by : by[j] = c]]
        RECURSIVE Emit(_)
        Emit(ks) == IF ks = {} THEN <<>>
                    ELSE LET k == CHOOSE x \in ks : TRUE
                         IN  <<out(k)>> \o Emit(ks \ {k})
    IN  SortValues([columns |-> Range(by) \cup {col}, rows |-> Emit(DOMAIN acc)], by)

\* x put behind every element of s, sorted descending on col, that is not smaller
RECURSIVE InsertDesc(_, _, _)
InsertDesc(x, s, col) ==
    IF s = <<>> THEN <<x>>
    ELSE IF RLess(Head(s)[col], x[col]) THEN <<x>> \o s
    ELSE <<Head(s)>> \o InsertDesc(x, Tail(s), col)

RECURSIVE StableSortDesc(_, _)
StableSortDesc(s, col) ==
    IF s = <<>> THEN <<>>
    ELSE InsertDesc(s[Len(s)], StableSortDesc(SubSeq(s, 1, Len(s) - 1), col), col)

\* frame.sort_values(col, ascending=False); rows equal on col keep their order (for
\* the short frames of this model numpy's sort is an insertion sort)
SortValuesDesc(frame, col) == [frame EXCEPT !.rows = StableSortDesc(@, col)]

\* Lines 155-159
DistrictRisk(df) ==
    SortValuesDesc(GroupByMean(df, RegionCols, "risk_percent"), "risk_percent")

\* StateRisk as it would be if it grouped the Region-Month rows of df
StateRiskFlat(locals) ==
    SortValuesDesc(GroupByMean(locals.df, <<"state">>, "risk_percent"), "risk_percent")

\* Lines 167-172: the state table, of the district table and not of df
StateRisk(locals) ==
    SortValuesDesc(GroupByMean(locals.district_risk, <<"state">>, "risk_percent"),
                   "risk_percent")

\* A file that does not exist
NoFile == [exists |-> FALSE, by |-> 0, frame |-> EmptyFrame]

\* to_csv as it would be with mode="a": the rows are added to those of the file
ToCsvAppend(file, frame, n) ==
    [exists |-> TRUE, by |-> n,
     frame |-> [columns |-> frame.columns, rows |-> file.frame.rows \o frame.rows]]

\* frame.to_csv(path, index=False) by run n: the file is opened for writing, so
\* what it held is gone
ToCsv(file, frame, n) == [exists |-> TRUE, by |-> n, frame |-> frame]

\* The OSError of a file that cannot be opened or written
OSError == [type |-> "OSError", missing |-> {}, present |-> {}]

----------------------------------------------------------------------------
(* The cleaned files the engine may find *)

Year == 2024
Months == 1..MaxMonth
Counts == 0..MaxCount
Regions == {<<"S1", "D1">>, <<"S1", "D2">>, <<"S2", "D1">>}

BioSchema == Range(KeyCols) \cup BioCounts
DemoSchema == Range(KeyCols) \cup DemoCounts
EnrolSchema == Range(KeyCols) \cup {"enrol_0_5", "enrol_5_17", "enrol_18_plus"} \cup EnrolCounts

BioRow(r, m, child, adult) ==
    [state |-> r[1], district |-> r[2], year |-> Year, month |-> m,
     bio_5_17 |-> child, bio_17_plus |-> adult]

DemoRow(r, m, child, adult) ==
    [state |-> r[1], district |-> r[2], year |-> Year, month |-> m,
     demo_5_17 |-> child, demo_17_plus |-> adult]

\* enrolment_count is the sum of the three age groups (clean_data.py, lines 270-274)
EnrolRow(r, m, adult) ==
    [state |-> r[1], district |-> r[2], year |-> Year, month |-> m,
     enrol_0_5 |-> 0, enrol_5_17 |-> 0, enrol_18_plus |-> adult,
     enrolment_count |-> adult]

BioRows == {BioRow(r, m, a, b) : r \in Regions, m \in Months, a \in Counts, b \in Counts}
DemoRows == {DemoRow(r, m, a, b) : r \in Regions, m \in Months, a \in Counts, b \in Counts}
EnrolRows == {EnrolRow(r, m, n) : r \in Regions, m \in Months, n \in Counts}

CsvFile(schema, rows) == [columns |-> schema, rows |-> rows]

\* The file without the column c
WithoutColumn(file, c) ==
    [columns |-> file.columns \ {c},
     rows |-> [i \in DOMAIN file.rows |->
                 [x \in DOMAIN file.rows[i] \ {c} |-> file.rows[i][x]]]]

\* Three files that give three Region-Month Records in state S1, two of one district
\* and one of the other, the second month of S1/D1 without demographic or enrolment row
BaseBio == CsvFile(BioSchema, <<BioRow(<<"S1", "D1">>, 1, 1, 0),
                                BioRow(<<"S1", "D1">>, 2, 0, 1),
                                BioRow(<<"S1", "D2">>, 1, 1, 1)>>)
BaseDemo == CsvFile(DemoSchema, <<DemoRow(<<"S1", "D1">>, 1, 0, 1)>>)
BaseEnrol == CsvFile(EnrolSchema, <<EnrolRow(<<"S1", "D1">>, 1, 1)>>)

\* The end-to-end scenario: two regions, one month each, biometric (5,2) and (1,1),
\* enrolment 10 each
ScenarioBio == CsvFile(BioSchema, <<BioRow(<<"S1", "D1">>, 1, 5, 2),
                                    BioRow(<<"S2", "D1">>, 1, 1, 1)>>)
ScenarioDemo == CsvFile(DemoSchema, <<>>)
ScenarioEnrol == CsvFile(EnrolSchema, <<EnrolRow(<<"S1", "D1">>, 1, 10),
                                        EnrolRow(<<"S2", "D1">>, 1, 10)>>)

\* Two regions of two months each: the biometric rate of S1/D1 rises from 0, that
\* of S1/D2 falls from 2 to 1
VolatilityBio == CsvFile(BioSchema, <<BioRow(<<"S1", "D1">>, 1, 0, 0),
                                      BioRow(<<"S1", "D1">>, 2, 1, 0),
                                      BioRow(<<"S1", "D2">>, 1, 1, 1),
                                      BioRow(<<"S1", "D2">>, 2, 1, 0)>>)

Input(b, d, e) == [bio |-> b, demo |-> d, enrol |-> e]

\* The base files with one column missing from one of them
FaultyInputs ==
    {Input(WithoutColumn(BaseBio, c), BaseDemo, BaseEnrol) : c \in BioSchema}
    \cup {Input(BaseBio, WithoutColumn(BaseDemo, c), BaseEnrol) : c \in DemoSchema}
    \cup {Input(BaseBio, BaseDemo, WithoutColumn(BaseEnrol, c)) : c \in EnrolSchema}

ScenarioInput == Input(ScenarioBio, ScenarioDemo, ScenarioEnrol)

VolatilityInput == Input(VolatilityBio, BaseDemo, BaseEnrol)

\* One file varies and the other two are the base files: the biometric file is
\* empty or the base file, followed by up to MaxRows further rows; the demographic
\* and the enrolment file are any file of up to MaxRows rows
Inputs ==
    {Input(CsvFile(BioSchema, base \o more), BaseDemo, BaseEnrol) :
        base \in {<<>>, BaseBio.rows}, more \in SeqsUpTo(BioRows, MaxRows)}
    \cup {Input(BaseBio, CsvFile(DemoSchema, more), BaseEnrol) :
            more \in SeqsUpTo(DemoRows, MaxRows)}
    \cup {Input(BaseBio, BaseDemo, CsvFile(EnrolSchema, more)) :
            more \in SeqsUpTo(EnrolRows, MaxRows)}
    \cup FaultyInputs
    \cup {ScenarioInput, VolatilityInput}

\* The inputs of the runs that are repeated: the base biometric file with one
\* further row, the faulty inputs and the scenario
RerunInputs ==
    {Input(CsvFile(BioSchema, BaseBio.rows \o <<row>>), BaseDemo, BaseEnrol) : row \in BioRows}
    \cup {Input(CsvFile(BioSchema, <<>>), BaseDemo, BaseEnrol)}
    \cup FaultyInputs
    \cup {ScenarioInput}

----------------------------------------------------------------------------
(* clean_data.py: the tables the API returns and what the cleaning makes of them *)

\* The row with the cells values under the column names names
Row(names, values) ==
    [c \in Range(names) |-> values[CHOOSE i \in DOMAIN names : names[i] = c]]

\* df.columns.str.lower().str.strip() (line 48) on the column names seen from the API
LowerStrip(name) ==
    CASE name = "State" -> "state"
      [] name = "District " -> "district"
      [] name = "Date" -> "date"
      [] name = "Bio Age 5 17" -> "bio age 5 17"
      [] name = "Bio Age 17" -> "bio age 17"
      [] name = "Demo_Age_5_17" -> "demo_age_5_17"
      [] name = "Age_18_Greater " -> "age_18_greater"
      [] OTHER -> name

\* astype(str).str.strip().str.title() (lines 58-61) on the region names seen
StripTitle(name) ==
    CASE name = "s1" -> "S1"
      [] name = " s1" -> "S1"
      [] name = "d1 " -> "D1"
      [] name = "d2" -> "D2"
      [] OTHER -> name

\* pd.to_datetime(..., dayfirst=True) (line 52) on a date given as <<day, month, year>>
ToDatetime(date) == [year |-> date[3], month |-> date[2], day |-> date[1]]

\* A df.empty that never holds
NeverEmpty(df) == FALSE

\* df.empty: no columns or no rows
Empty(df) == df.columns = {} \/ df.rows = <<>>

\* df.rename(columns={old: new}), done only if old is a column (lines 105-107)
RenameColumn(df, old, new) ==
    IF old \notin df.columns THEN df
    ELSE [columns |-> (df.columns \ {old}) \cup {new},
          rows |-> [i \in DOMAIN df.rows |->
                      [c \in (DOMAIN df.rows[i] \ {old}) \cup {new} |->
                          IF c = new THEN df.rows[i][old] ELSE df.rows[i][c]]]]

\* The loop over column_mapping.items(), in the order of the dict
RECURSIVE RenameAll(_, _)
RenameAll(df, column_mapping) ==
    IF column_mapping = <<>> THEN df
    ELSE RenameAll(RenameColumn(df, Head(column_mapping)[1], Head(column_mapping)[2]),
                   Tail(column_mapping))

\* clean_common_columns(df), lines 39-63
clean_common_columns(df) ==
    LET lower == [columns |-> {LowerStrip(c) : c \in df.columns},
                  rows |-> [i \in DOMAIN df.rows |->
                              [c \in {LowerStrip(x) : x \in DOMAIN df.rows[i]} |->
                                  df.rows[i][CHOOSE x \in DOMAIN df.rows[i] :
                                                 LowerStrip(x) = c]]]]
        dated == IF "date" \notin lower.columns THEN lower
                 ELSE [columns |-> lower.columns \cup {"year", "month"},
                       rows |-> [i \in DOMAIN lower.rows |->
                                   LET date == ToDatetime(lower.rows[i]["date"])
                                   IN  WithCols(lower.rows[i],
                                                [date |-> date, year |-> date.year,
                                                 month |-> date.month])]]
        Titled(frame, col) ==
            IF col \notin frame.columns THEN frame
            ELSE [frame EXCEPT !.rows =
                    [i \in DOMAIN @ |-> [@[i] EXCEPT ![col] = StripTitle(@)]]]
    IN  Titled(Titled(dated, "state"), "district")

\* The column_mapping dicts of lines 89-102, 161-172 and 236-249
BioColumnMapping ==
    <<<<"bio age 5 17", "bio_5_17">>, <<"bio_age_5_17", "bio_5_17">>,
      <<"biometric_age_5_17", "bio_5_17">>, <<"age_5_17", "bio_5_17">>,
      <<"bio age 17", "bio_17_plus">>, <<"bio_age_17", "bio_17_plus">>,
      <<"bio_age_17_", "bio_17_plus">>, <<"biometric_age_17", "bio_17_plus">>,
      <<"age_17_above", "bio_17_plus">>>>

DemoColumnMapping ==
    <<<<"demo age 5 17", "demo_5_17">>, <<"demo_age_5_17", "demo_5_17">>,
      <<"demographic_age_5_17", "demo_5_17">>,
      <<"demo age 17", "demo_17_plus">>, <<"demo_age_17", "demo_17_plus">>,
      <<"demo_age_17_", "demo_17_plus">>, <<"demographic_age_17", "demo_17_plus">>>>

EnrolColumnMapping ==
    <<<<"age 0 5", "enrol_0_5">>, <<"age_0_5", "enrol_0_5">>,
      <<"age 5 17", "enrol_5_17">>, <<"age_5_17", "enrol_5_17">>,
      <<"age 18 greater", "enrol_18_plus">>, <<"age_18_greater", "enrol_18_plus">>,
      <<"age_18+", "enrol_18_plus">>>>

EnrolAges == {"enrol_0_5", "enrol_5_17", "enrol_18_plus"}

\* The ValueError of the safety checks: its message names the missing columns and
\* the columns available
ValueError(missing, available) ==
    [type |-> "ValueError", missing |-> missing, present |-> available]

\* A request of the fetch raised (raise_for_status, a timeout)
HTTPError == [type |-> "HTTPError", missing |-> {}, present |-> {}]

\* df[cols]
Select(df, cols) ==
    [columns |-> cols, rows |-> [i \in DOMAIN df.rows |-> [c \in cols |-> df.rows[i][c]]]]

\* What a process_* function did: the exception it raised, whether it wrote its
\* cleaned file, and the frame it wrote
Skipped == [err |-> NoError, wrote |-> FALSE, frame |-> EmptyFrame]
Raised(e) == [err |-> e, wrote |-> FALSE, frame |-> EmptyFrame]
Saved(df) == [err |-> NoError, wrote |-> TRUE, frame |-> df]

\* The tail shared by the three process_* functions: the safety check on the
\* required columns, the final column selection and to_csv
CheckSelectSave(df, required_cols, selected) ==
    LET missing == required_cols \ df.columns
    IN  IF missing # {} THEN Raised(ValueError(missing, df.columns))
        ELSE IF selected \ df.columns # {} THEN Raised(KeyError(selected \ df.columns))
        ELSE Saved(Select(df, selected))

\* process_biometric_data(), lines 68-129, on the table the fetch returned
process_biometric_data(df) ==
    IF Empty(df) THEN Skipped
    ELSE CheckSelectSave(RenameAll(clean_common_columns(df), BioColumnMapping),
                         BioCounts, BioSchema)

\* process_demographic_data(), lines 136-198
process_demographic_data(df) ==
    IF Empty(df) THEN Skipped
    ELSE CheckSelectSave(RenameAll(clean_common_columns(df), DemoColumnMapping),
                         DemoCounts, DemoSchema)

\* process_enrolment_data(), lines 207-295: enrolment_count is added between the
\* safety check and the selection
process_enrolment_data(df) ==
    IF Empty(df) THEN Skipped
    ELSE LET renamed == RenameAll(clean_common_columns(df), EnrolColumnMapping)
             counted ==
                [columns |-> renamed.columns \cup {"enrolment_count"},
                 rows |-> [i \in DOMAIN renamed.rows |->
                             WithCols(renamed.rows[i],
                                [enrolment_count |->
                                    renamed.rows[i]["enrol_0_5"]
                                    + renamed.rows[i]["enrol_5_17"]
                                    + renamed.rows[i]["enrol_18_plus"]])]]
         IN  IF EnrolAges \ renamed.columns # {}
             THEN Raised(ValueError(EnrolAges \ renamed.columns, renamed.columns))
             ELSE CheckSelectSave(counted, EnrolAges, EnrolSchema)

\* pd.DataFrame([]): what the fetch returns when the API had no record
RawEmpty == [columns |-> {}, rows |-> <<>>]

RawTable(names, rows) ==
    [columns |-> Range(names), rows |-> [i \in DOMAIN rows |-> Row(names, rows[i])]]

\* The tables a biometric fetch may return: none, two spellings of a good table,
\* and a table without the adult column
FetchedBio ==
    {RawEmpty,
     RawTable(<<"state", "district", "year", "month", "bio_age_5_17", "bio_age_17_">>,
              <<<<"s1", "d1 ", Year, 1, 1, 1>>, <<"S2", "D1", Year, 1, 0, 1>>>>),
     RawTable(<<"State", "District ", "Date", "Bio Age 5 17", "Bio Age 17">>,
              <<<<" s1", "d2", <<15, 2, Year>>, 1, 0>>>>),
     RawTable(<<"state", "district", "year", "month", "bio_age_5_17">>,
              <<<<"s1", "d1 ", Year, 1, 1>>>>)}

FetchedDemo ==
    {RawEmpty,
     RawTable(<<"state", "district", "year", "month", "Demo_Age_5_17", "demo_age_17_">>,
              <<<<"s1", "d1 ", Year, 1, 1, 0>>>>),
     RawTable(<<"state", "district", "year", "month", "demo age 5 17", "demographic_age_17">>,
              <<<<"S2", "D1", Year, 1, 1, 1>>>>)}

FetchedEnrol ==
    {RawEmpty,
     RawTable(<<"state", "district", "year", "month", "age_0_5", "age_5_17", "Age_18_Greater ">>,
              <<<<"s1", "d1 ", Year, 1, 1, 0, 1>>>>),
     RawTable(<<"state", "district", "year", "month", "age 0 5", "age 5 17", "age_18+">>,
              <<<<"S2", "D1", Year, 1, 0, 0, 1>>>>)}

Families == {"bio", "demo", "enrol"}

\* clean_data.main() has not run: the cleaned files are those an earlier run left
NoPipeline ==
    [pc |-> "idle", run |-> 0, err |-> NoError,
     fetched |-> [f \in Families |-> RawEmpty], processed |-> {},
     origin |-> [f \in Families |-> 0],
     before |-> [f \in Families |-> EmptyFrame]]

----------------------------------------------------------------------------
(* uidai_api.py: the paginated fetch of one resource *)

\* years=(2024, 2025), line 37
FetchYears == <<2024, 2025>>

\* The (year, month) pairs in the order the two for loops visit them
Pairs ==
    Concat([y \in DOMAIN FetchYears |->
              [m \in 1..MaxFetchMonth |-> <<FetchYears[y], m>>]])

\* What the resource may hold for one (year, month): 0..MaxTotal records, or
\* records without end (a page at every offset)
Endless == MaxTotal + 1
Holdings == 0..Endless

\* Requests per (year, month) the model follows: one more than a resource of
\* MaxTotal records needs at the smallest page size
MaxPages == MaxTotal + 1

Record(pair, n) == [year |-> pair[1], month |-> pair[2], id |-> n]

\* data.get("records", []) of the response to a request with the filters of pair,
\* at offset and with limit lim, from a resource holding held records for pair
Page(held, pair, offset, lim) ==
    LET left == IF held = Endless THEN lim
                ELSE IF held - offset >= lim THEN lim
                ELSE IF held - offset > 0 THEN held - offset ELSE 0
    IN  [k \in 1..left |-> Record(pair, offset + k)]

\* The loop that leaves the offset where it is
SameOffset(offset, lim) == offset

\* offset += limit, line 72
NextOffset(offset, lim) == offset + lim

NoDataFrame == [exists |-> FALSE, records |-> <<>>]

\* pd.DataFrame(all_records), line 76
DataFrame(all_records) == [exists |-> TRUE, records |-> all_records]

\* fetch_uidai_data has not been called
NoFetch ==
    [pc |-> "idle", pair |-> 1, offset |-> 0, all_records |-> <<>>,
     requests |-> <<>>, df |-> NoDataFrame]

\* A resource without records
NoRemote == [p \in DOMAIN Pairs |-> 0]

----------------------------------------------------------------------------
(* main() *)

NoFrames == [bio_agg |-> EmptyFrame, demo_agg |-> EmptyFrame, enrol_agg |-> EmptyFrame,
             merged |-> EmptyFrame, df |-> EmptyFrame, district_risk |-> EmptyFrame]

InitWith(inputs) ==
    /\ \E in \in inputs :
          /\ bioFile = in.bio
          /\ demoFile = in.demo
          /\ enrolFile = in.enrol
    /\ districtFile = NoFile
    /\ stateFile = NoFile
    /\ pc = "idle"
    /\ run = 0
    /\ frames = NoFrames
    /\ err = NoError
    /\ last = [run |-> 0, district |-> NoFile, state |-> NoFile]
    /\ pipeline = NoPipeline
    /\ fetch = NoFetch
    /\ remote = NoRemote

Init == InitWith(Inputs)

InitRerun == InitWith(RerunInputs)

\* build_features() as main() calls it (line 186): it returns df or raises
BuildFeatures ==
    /\ LET out == BuildFeaturesOf(bioFile, demoFile, enrolFile)
       IN  /\ frames' = [bio_agg |-> out.bio_agg, demo_agg |-> out.demo_agg,
                         enrol_agg |-> out.enrol_agg, merged |-> out.merged,
                         df |-> out.df, district_risk |-> EmptyFrame]
           /\ err' = out.err
           /\ pc' = IF out.err = NoError THEN "built" ELSE "failed"
    /\ run' = run + 1
    /\ UNCHANGED <<bioFile, demoFile, enrolFile, districtFile, stateFile>>
    /\ UNCHANGED <<pipeline, fetch, remote>>

\* The first invocation of main()
Start ==
    /\ pc = "idle"
    /\ BuildFeatures
    /\ UNCHANGED last

\* main() is invoked again, after a run that completed or failed; the cleaned
\* files are those of the run before
Restart ==
    /\ pc \in {"done", "failed"}
    /\ run < MaxRuns
    /\ BuildFeatures
    /\ last' = IF pc = "done"
               THEN [run |-> run, district |-> districtFile, state |-> stateFile]
               ELSE last

\* save_outputs, lines 155-164: the district table is computed and written
SaveDistrict ==
    /\ pc = "built"
    /\ LET district_risk == DistrictRisk(frames.df)
       IN  /\ frames' = [frames EXCEPT !.district_risk = district_risk]
           /\ districtFile' = ToCsv(districtFile, district_risk, run)
    /\ pc' = "district_saved"
    /\ UNCHANGED <<bioFile, demoFile, enrolFile, stateFile, run, err, last>>
    /\ UNCHANGED <<pipeline, fetch, remote>>

\* save_outputs, lines 167-179, and the return of main(): the state table is
\* computed from the district table and written
SaveState ==
    /\ pc = "district_saved"
    /\ stateFile' = ToCsv(stateFile, StateRisk(frames), run)
    /\ pc' = "done"
    /\ UNCHANGED <<bioFile, demoFile, enrolFile, districtFile, run, frames, err, last>>
    /\ UNCHANGED <<pipeline, fetch, remote>>

\* to_csv raises before it has opened its file (the path is not writable): the
\* exception leaves save_outputs and main(), which catch nothing
WriteFails ==
    /\ pc \in {"built", "district_saved"}
    /\ pc' = "failed"
    /\ err' = OSError
    /\ UNCHANGED <<bioFile, demoFile, enrolFile, districtFile, stateFile, run, frames, last>>
    /\ UNCHANGED <<pipeline, fetch, remote>>

Next == Start \/ SaveDistrict \/ SaveState \/ WriteFails

\* One invocation of main() on any of the inputs
Spec == Init /\ [][Next]_vars

NextRerun == Next \/ Restart

\* Up to MaxRuns invocations of main() on the same cleaned files
SpecRerun == InitRerun /\ [][NextRerun]_vars

----------------------------------------------------------------------------
(* clean_data.main() *)

CleanedFiles == [bio |-> bioFile, demo |-> demoFile, enrol |-> enrolFile]

\* main() is invoked (lines 301-310), before the engine has run
CleanMain ==
    /\ pc = "idle"
    /\ pipeline.pc \in {"idle", "success", "failed"}
    /\ pipeline.run < MaxPipelineRuns
    /\ pipeline' = [pc |-> "started", run |-> pipeline.run + 1, err |-> NoError,
                    fetched |-> [f \in Families |-> RawEmpty], processed |-> {},
                    origin |-> pipeline.origin, before |-> CleanedFiles]
    /\ UNCHANGED <<bioFile, demoFile, enrolFile>>
    /\ UNCHANGED <<districtFile, stateFile, pc, run, frames, err, last, fetch, remote>>

\* The pipeline after the process_* function of family got the table df and ended
\* as out says: main() goes on to next, or the exception leaves main()
AfterProcess(family, df, out, next) ==
    [pipeline EXCEPT !.pc = IF out.err = NoError THEN next ELSE "failed",
                     !.err = out.err,
                     !.fetched[family] = df,
                     !.processed = @ \cup {family},
                     !.origin[family] = IF out.wrote THEN pipeline.run ELSE @]

\* Line 306
ProcessBiometric ==
    /\ pipeline.pc = "started"
    /\ \E df \in FetchedBio :
          LET out == process_biometric_data(df)
          IN  /\ pipeline' = AfterProcess("bio", df, out, "biometric_done")
              /\ bioFile' = IF out.wrote THEN out.frame ELSE bioFile
    /\ UNCHANGED <<demoFile, enrolFile>>
    /\ UNCHANGED <<districtFile, stateFile, pc, run, frames, err, last, fetch, remote>>

\* Line 307
ProcessDemographic ==
    /\ pipeline.pc = "biometric_done"
    /\ \E df \in FetchedDemo :
          LET out == process_demographic_data(df)
          IN  /\ pipeline' = AfterProcess("demo", df, out, "demographic_done")
              /\ demoFile' = IF out.wrote THEN out.frame ELSE demoFile
    /\ UNCHANGED <<bioFile, enrolFile>>
    /\ UNCHANGED <<districtFile, stateFile, pc, run, frames, err, last, fetch, remote>>

\* Lines 308-310: the last family, and the message of success
ProcessEnrolment ==
    /\ pipeline.pc = "demographic_done"
    /\ \E df \in FetchedEnrol :
          LET out == process_enrolment_data(df)
          IN  /\ pipeline' = AfterProcess("enrol", df, out, "success")
              /\ enrolFile' = IF out.wrote THEN out.frame ELSE enrolFile
    /\ UNCHANGED <<bioFile, demoFile>>
    /\ UNCHANGED <<districtFile, stateFile, pc, run, frames, err, last, fetch, remote>>

\* The fetch of the family that is next raises: the exception leaves main()
FetchRaises ==
    /\ pipeline.pc \in {"started", "biometric_done", "demographic_done"}
    /\ pipeline' = [pipeline EXCEPT !.pc = "failed", !.err = HTTPError]
    /\ UNCHANGED <<bioFile, demoFile, enrolFile>>
    /\ UNCHANGED <<districtFile, stateFile, pc, run, frames, err, last, fetch, remote>>

\* The engine's build_features runs once the pipeline has ended
EngineAfterPipeline ==
    /\ pipeline.pc \in {"success", "failed"}
    /\ Start

InitPipeline == InitWith({Input(BaseBio, BaseDemo, BaseEnrol)})

NextPipeline ==
    \/ CleanMain
    \/ ProcessBiometric
    \/ ProcessDemographic
    \/ ProcessEnrolment
    \/ FetchRaises
    \/ EngineAfterPipeline

\* Up to MaxPipelineRuns runs of the cleaning pipeline over the files an earlier
\* run left, then a run of the engine
SpecPipeline == InitPipeline /\ [][NextPipeline]_vars

----------------------------------------------------------------------------
(* fetch_uidai_data() *)

\* Number of requests made so far for the pair the loop is at
RequestsOfPair == Len(SelectSeq(fetch.requests, LAMBDA r : r.pair = fetch.pair))

\* The records of the response to the request the loop makes next
Response == Page(remote[fetch.pair], Pairs[fetch.pair], fetch.offset, limit)

ThisRequest == [pair |-> fetch.pair, offset |-> fetch.offset, records |-> Response]

\* fetch_uidai_data is called: all_records = [], the first pair, offset 0
FetchCall ==
    /\ fetch.pc = "idle"
    /\ fetch' = [fetch EXCEPT !.pc = "requesting"]
    /\ UNCHANGED <<bioFile, demoFile, enrolFile, districtFile, stateFile, pc, run,
                   frames, err, last, pipeline, remote>>

\* Lines 50-72: a request whose response has records
PageReceived ==
    /\ fetch.pc = "requesting"
    /\ RequestsOfPair < MaxPages
    /\ Response # <<>>
    /\ fetch' = [fetch EXCEPT !.all_records = @ \o Response,
                              !.offset = NextOffset(@, limit),
                              !.requests = Append(@, ThisRequest)]
    /\ UNCHANGED <<bioFile, demoFile, enrolFile, districtFile, stateFile, pc, run,
                   frames, err, last, pipeline, remote>>

\* Lines 50-69 and 74-78: a request whose response has no records ends the pair;
\* after the last pair the frame of all_records is returned
EmptyPage ==
    /\ fetch.pc = "requesting"
    /\ RequestsOfPair < MaxPages
    /\ Response = <<>>
    /\ fetch' = IF fetch.pair < Len(Pairs)
                THEN [fetch EXCEPT !.pair = @ + 1, !.offset = 0,
                                   !.requests = Append(@, ThisRequest)]
                ELSE [fetch EXCEPT !.pc = "returned",
                                   !.requests = Append(@, ThisRequest),
                                   !.df = DataFrame(fetch.all_records)]
    /\ UNCHANGED <<bioFile, demoFile, enrolFile, districtFile, stateFile, pc, run,
                   frames, err, last, pipeline, remote>>

\* Lines 62-63: requests.get or raise_for_status raises, and nothing catches it
RequestFails ==
    /\ fetch.pc = "requesting"
    /\ fetch' = [fetch EXCEPT !.pc = "raised"]
    /\ UNCHANGED <<bioFile, demoFile, enrolFile, districtFile, stateFile, pc, run,
                   frames, err, last, pipeline, remote>>

InitFetch ==
    /\ bioFile = BaseBio
    /\ demoFile = BaseDemo
    /\ enrolFile = BaseEnrol
    /\ districtFile = NoFile
    /\ stateFile = NoFile
    /\ pc = "idle"
    /\ run = 0
    /\ frames = NoFrames
    /\ err = NoError
    /\ last = [run |-> 0, district |-> NoFile, state |-> NoFile]
    /\ pipeline = NoPipeline
    /\ fetch = NoFetch
    /\ remote \in [DOMAIN Pairs -> Holdings]

\* The steps the loop takes by itself
FetchProgress == FetchCall \/ PageReceived \/ EmptyPage

NextFetch == FetchProgress \/ RequestFails

\* One call of fetch_uidai_data against any resource: the loop goes on while it
\* can, and a request may fail at any time
SpecFetch == InitFetch /\ [][NextFetch]_vars /\ WF_vars(FetchProgress)

----------------------------------------------------------------------------
(* The claims *)

Rows(frame) == {frame.rows[i] : i \in DOMAIN frame.rows}

\* A finite percentage between 0 and 100
PercentOk(q) == q[2] > 0 /\ 0 <= q[1] /\ q[1] <= 100 * q[2]

\* C1: whatever the input, every Region-Month row of df and every row of the
\* district and of the state table on disk carries a finite risk_percent with
\* 0 <= risk_percent <= 100.
C1_RiskPercentInRange ==
    /\ \A r \in Rows(frames.df) : PercentOk(r["risk_percent"])
    /\ \A r \in Rows(districtFile.frame) : PercentOk(r["risk_percent"])
    /\ \A r \in Rows(stateFile.frame) : PercentOk(r["risk_percent"])

\* A completed run on three non-empty files with three Region-Month rows or more,
\* one ranked below 100, and both tables written
C1_Witness ==
    /\ pc = "done"
    /\ bioFile.rows # <<>> /\ demoFile.rows # <<>> /\ enrolFile.rows # <<>>
    /\ Len(frames.df.rows) >= 3
    /\ \E r \in Rows(frames.df) : RLess(r["risk_percent"], RInt(100))
    /\ districtFile.frame.rows # <<>>
    /\ stateFile.frame.rows # <<>>

\* C2: output writing is all-or-nothing: a completed run has written both tables,
\* and a failed run has written neither.
C2_AllOrNothing ==
    /\ pc = "done" => districtFile.by = run /\ stateFile.by = run
    /\ pc = "failed" => districtFile.by # run /\ stateFile.by # run

AnyInputEmpty == bioFile.rows = <<>> \/ demoFile.rows = <<>> \/ enrolFile.rows = <<>>

\* C3: when one of the three input files has no rows, the run fails with an
\* EmptyInputError and writes no output table.
C3_EmptyInputFails ==
    AnyInputEmpty =>
        /\ pc \in {"idle", "failed"}
        /\ pc = "failed" => err.type = "EmptyInputError"
        /\ ~districtFile.exists
        /\ ~stateFile.exists

\* The columns of schema that file lacks
MissingColumns(file, schema) == schema \ file.columns

\* C4: when an input file lacks a column of its family's schema, the run fails with
\* an error that names the missing columns and the columns present, and writes no
\* output table.
C4_SchemaErrorNamesColumns ==
    \A f \in {<<bioFile, BioSchema>>, <<demoFile, DemoSchema>>, <<enrolFile, EnrolSchema>>} :
        MissingColumns(f[1], f[2]) # {} =>
            /\ pc \in {"idle", "failed"}
            /\ pc = "failed" =>
                  /\ err.missing = MissingColumns(f[1], f[2])
                  /\ err.present = f[1].columns
            /\ ~districtFile.exists
            /\ ~stateFile.exists

ScenarioLoaded ==
    bioFile = ScenarioBio /\ demoFile = ScenarioDemo /\ enrolFile = ScenarioEnrol

HasDf == pc \in {"built", "district_saved", "done"}

\* The row of frame for a state and a district in month 1
RowOf(frame, s, d) ==
    CHOOSE r \in Rows(frame) : r["state"] = s /\ r["district"] = d /\ r["month"] = 1

\* C5 as stated: in the scenario the first region's risk_signal exceeds the second's,
\* and risk_percent is 100.0 for the first region and 0.0 for the second.
C5_ScenarioAsStated ==
    ScenarioLoaded /\ HasDf =>
        LET first == RowOf(frames.df, "S1", "D1")
            second == RowOf(frames.df, "S2", "D1")
        IN  /\ RLess(second["risk_signal"], first["risk_signal"])
            /\ first["risk_percent"] = RInt(100)
            /\ second["risk_percent"] = RInt(0)

\* C5 amended: in the scenario the first region's risk_signal exceeds the second's,
\* and risk_percent is 100.0 for the first region and 50.0 for the second (rank 1
\* of 2).
C5_ScenarioRanks ==
    ScenarioLoaded /\ HasDf =>
        LET first == RowOf(frames.df, "S1", "D1")
            second == RowOf(frames.df, "S2", "D1")
        IN  /\ Len(frames.df.rows) = 2
            /\ RLess(second["risk_signal"], first["risk_signal"])
            /\ first["risk_percent"] = RInt(100)
            /\ second["risk_percent"] = RInt(50)

\* build_features has returned on the scenario
C5_Witness == ScenarioLoaded /\ pc = "built" /\ Len(frames.df.rows) = 2

\* C6: of two Region-Month rows of one run, the one with the greater risk_signal
\* has at least the risk_percent of the other, whatever their states and months.
C6_RankMonotone ==
    \A a, b \in Rows(frames.df) :
        RLess(b["risk_signal"], a["risk_signal"]) =>
            RLeq(b["risk_percent"], a["risk_percent"])

\* Two rows of different states and months, the signal and the percent of one
\* strictly above the other's
C6_Witness ==
    \E a, b \in Rows(frames.df) :
        /\ a["state"] # b["state"]
        /\ a["month"] # b["month"]
        /\ RLess(b["risk_signal"], a["risk_signal"])
        /\ RLess(b["risk_percent"], a["risk_percent"])

RECURSIVE SumPercent(_)
SumPercent(S) ==
    IF S = {} THEN RInt(0)
    ELSE LET r == CHOOSE x \in S : TRUE
         IN  RAdd(r["risk_percent"], SumPercent(S \ {r}))

\* The arithmetic mean of risk_percent over a set of rows
MeanPercent(S) == RDiv(SumPercent(S), RInt(Cardinality(S)))

SameRegion(a, b) == a["state"] = b["state"] /\ a["district"] = b["district"]

\* C7: the district table has one row per (state, district) of df, its risk_percent
\* the mean of the risk_percent of that district's Region-Month rows; the state
\* table has one row per state, its risk_percent the mean of the risk_percent of
\* that state's rows of the district table.
C7_TwoLevelRollup ==
    /\ pc \in {"district_saved", "done"} =>
          /\ \A r \in Rows(frames.df) :
                Cardinality({i \in DOMAIN districtFile.frame.rows :
                                SameRegion(districtFile.frame.rows[i], r)}) = 1
          /\ \A d \in Rows(districtFile.frame) :
                LET months == {r \in Rows(frames.df) : SameRegion(r, d)}
                IN  months # {} /\ d["risk_percent"] = MeanPercent(months)
    /\ pc = "done" =>
          /\ \A d \in Rows(districtFile.frame) :
                Cardinality({i \in DOMAIN stateFile.frame.rows :
                                stateFile.frame.rows[i]["state"] = d["state"]}) = 1
          /\ \A s \in Rows(stateFile.frame) :
                LET districts == {d \in Rows(districtFile.frame) : d["state"] = s["state"]}
                IN  districts # {} /\ s["risk_percent"] = MeanPercent(districts)

\* A state whose districts have different numbers of months and whose risk_percent
\* is not the mean over all its Region-Month rows
C7_Witness ==
    /\ pc = "done"
    /\ \E s \in Rows(stateFile.frame) :
          LET months == {r \in Rows(frames.df) : r["state"] = s["state"]}
          IN  /\ \E a, b \in months :
                    Cardinality({r \in months : SameRegion(r, a)})
                        # Cardinality({r \in months : SameRegion(r, b)})
              /\ s["risk_percent"] # MeanPercent(months)

RECURSIVE SumCells(_, _, _)
SumCells(rows, S, c) ==
    IF S = {} THEN 0
    ELSE LET i == CHOOSE x \in S : TRUE
         IN  rows[i][c] + SumCells(rows, S \ {i}, c)

\* agg has exactly one row per key of raw, each count column of it the sum of the
\* column over the rows of raw with that key
AggregatedFrom(raw, agg, vals) ==
    /\ \A i \in DOMAIN raw.rows :
          Cardinality({j \in DOMAIN agg.rows :
                          SameKey(raw.rows[i], agg.rows[j], KeyCols)}) = 1
    /\ \A j \in DOMAIN agg.rows :
          LET same == {i \in DOMAIN raw.rows : SameKey(raw.rows[i], agg.rows[j], KeyCols)}
          IN  same # {} /\ \A c \in vals : agg.rows[j][c] = SumCells(raw.rows, same, c)

\* C8: each aggregate has exactly one row per (state, district, year, month) of its
\* raw file, and each count column of the row is the sum of the column over the raw
\* rows with that key.
C8_AggregationSums ==
    /\ frames.bio_agg.columns # {} => AggregatedFrom(bioFile, frames.bio_agg, BioCounts)
    /\ frames.demo_agg.columns # {} => AggregatedFrom(demoFile, frames.demo_agg, DemoCounts)
    /\ frames.enrol_agg.columns # {} => AggregatedFrom(enrolFile, frames.enrol_agg, EnrolCounts)

\* Two raw rows of one key, each bio_5_17 = 1, summed to 2 beside rows of other keys
C8_Witness ==
    /\ Len(frames.bio_agg.rows) >= 2
    /\ Len(bioFile.rows) > Len(frames.bio_agg.rows)
    /\ \E r \in Rows(frames.bio_agg) : r["bio_5_17"] = 2

HasKey(frame, row) == \E r \in Rows(frame) : SameKey(r, row, KeyCols)

\* C9: every key of the biometric aggregate is the key of exactly one row of the
\* merged frame; a merged row whose key the demographic (enrolment) aggregate
\* lacks has demo_5_17 = demo_17_plus = 0 (enrolment_count = 0).
C9_LeftMergeKeepsKeys ==
    frames.merged.columns # {} =>
        /\ \A b \in Rows(frames.bio_agg) :
              Cardinality({j \in DOMAIN frames.merged.rows :
                              SameKey(frames.merged.rows[j], b, KeyCols)}) = 1
        /\ \A m \in Rows(frames.merged) :
              /\ ~HasKey(frames.demo_agg, m) => m["demo_5_17"] = 0 /\ m["demo_17_plus"] = 0
              /\ ~HasKey(frames.enrol_agg, m) => m["enrolment_count"] = 0

\* A merged frame with a key both other aggregates have and a key neither has
C9_Witness ==
    /\ pc = "built"
    /\ \E m \in Rows(frames.merged) :
          /\ HasKey(frames.demo_agg, m) /\ m["demo_17_plus"] > 0
          /\ HasKey(frames.enrol_agg, m) /\ m["enrolment_count"] > 0
    /\ \E m \in Rows(frames.merged) :
          ~HasKey(frames.demo_agg, m) /\ ~HasKey(frames.enrol_agg, m)

\* C10: a run that completes after an earlier completed run on the same cleaned
\* files leaves both output tables as that run left them (same rows, same values,
\* same order), each written anew by itself.
C10_RerunSameOutputs ==
    pc = "done" /\ last.run > 0 =>
        /\ districtFile.frame = last.district.frame
        /\ stateFile.frame = last.state.frame
        /\ districtFile.by = run
        /\ stateFile.by = run

\* The second of two completed runs, with two district rows or more
C10_Witness ==
    /\ pc = "done"
    /\ last.run > 0
    /\ run > last.run
    /\ Len(districtFile.frame.rows) >= 2
    /\ stateFile.frame.rows # <<>>

\* a is of an earlier (year, month) than b
PeriodLess(a, b) ==
    a["year"] < b["year"] \/ (a["year"] = b["year"] /\ a["month"] < b["month"])

\* The rows of frame of the region of row and of an earlier period
Earlier(frame, row) == {r \in Rows(frame) : SameRegion(r, row) /\ PeriodLess(r, row)}

\* The latest of a non-empty set of rows of one region
Latest(S) == CHOOSE r \in S : \A x \in S : x = r \/ PeriodLess(x, r)

\* The month-over-month change of row on the column rate, as the volatility policy
\* defines it: 0 without predecessor or after a rate of 0, else |cur - prev| / prev
ChangeOf(frame, row, rate) ==
    LET before == Earlier(frame, row)
    IN  IF before = {} THEN RInt(0)
        ELSE LET prev == Latest(before)[rate]
             IN  IF prev[1] = 0 THEN RInt(0)
                 ELSE RDiv(RAbs(RSub(row[rate], prev)), prev)

\* C11: bio_mom_change (demo_mom_change) of a Region-Month row is 0 when the row is
\* the earliest of its (state, district) or the row before it in that region has
\* rate 0, else |current - previous| / previous with previous the rate of the
\* region's row of the latest earlier (year, month); it is never negative.
C11_Volatility ==
    HasDf =>
        \A r \in Rows(frames.df) :
            /\ r["bio_mom_change"] = ChangeOf(frames.df, r, "bio_update_rate")
            /\ r["demo_mom_change"] = ChangeOf(frames.df, r, "demo_update_rate")
            /\ RLeq(RInt(0), r["bio_mom_change"])
            /\ RLeq(RInt(0), r["demo_mom_change"])

\* One df with a row whose rate fell from a non-zero rate (a negative pct_change),
\* a row whose rate rose from 0, and a row that is the earliest of its region
\* while the row above it in df, of another region, has a different non-zero rate
C11_Witness ==
    /\ pc = "built"
    /\ \E r \in Rows(frames.df) :
          /\ Earlier(frames.df, r) # {}
          /\ RLess(r["bio_update_rate"], Latest(Earlier(frames.df, r))["bio_update_rate"])
          /\ RLess(RInt(0), r["bio_update_rate"])
          /\ RLess(RInt(0), r["bio_mom_change"])
    /\ \E r \in Rows(frames.df) :
          /\ Earlier(frames.df, r) # {}
          /\ Latest(Earlier(frames.df, r))["bio_update_rate"] = RInt(0)
          /\ RLess(RInt(0), r["bio_update_rate"])
          /\ r["bio_mom_change"] = RInt(0)
    /\ \E i \in DOMAIN frames.df.rows :
          /\ i > 1
          /\ Earlier(frames.df, frames.df.rows[i]) = {}
          /\ ~SameRegion(frames.df.rows[i - 1], frames.df.rows[i])
          /\ RLess(RInt(0), frames.df.rows[i - 1]["bio_update_rate"])
          /\ frames.df.rows[i - 1]["bio_update_rate"] # frames.df.rows[i]["bio_update_rate"]
          /\ frames.df.rows[i]["bio_mom_change"] = RInt(0)

\* The indices of the rows of df whose risk_signal is below that of row i
Below(rows, i) == {j \in DOMAIN rows : RLess(rows[j]["risk_signal"], rows[i]["risk_signal"])}

\* The indices of the rows of df whose risk_signal equals that of row i, i included
Tied(rows, i) == {j \in DOMAIN rows : rows[j]["risk_signal"] = rows[i]["risk_signal"]}

\* The mean of the rank positions below + 1 .. below + tied, over count, as a
\* percentage of two decimals
AverageRankPercent(below, tied, count) ==
    Round2(RDiv(RInt(100 * (2 * below + tied + 1)), RInt(2 * count)))

\* C12: two Region-Month rows of one run with equal risk_signal have the same
\* risk_percent, and it is the average of the rank positions the tied rows occupy,
\* divided by the number of rows of the run and scaled to 0-100.
C12_TiesAverageRank ==
    HasDf =>
        LET rows == frames.df.rows
        IN  \A i \in DOMAIN rows :
                /\ \A j \in Tied(rows, i) : rows[j]["risk_percent"] = rows[i]["risk_percent"]
                /\ rows[i]["risk_percent"] =
                      AverageRankPercent(Cardinality(Below(rows, i)),
                                         Cardinality(Tied(rows, i)), Len(rows))

\* Two tied rows above a row of lower signal and below a row of higher signal
C12_Witness ==
    /\ pc = "built"
    /\ \E i \in DOMAIN frames.df.rows :
          /\ Cardinality(Tied(frames.df.rows, i)) >= 2
          /\ Below(frames.df.rows, i) # {}
          /\ Cardinality(Below(frames.df.rows, i)) + Cardinality(Tied(frames.df.rows, i))
                < Len(frames.df.rows)

\* The fetched table has no record
NoRecords(df) == df.rows = <<>>

\* C13: when the table fetched for a family is empty, the family's process_* step
\* leaves its cleaned file as it was before the pipeline run, neither written nor
\* overwritten, and main() goes on: the run does not fail because of it, and once
\* all three families are processed without an exception it reports success. (A
\* later engine run then reads that file beside files of a later pipeline run:
\* C13_Witness.)
C13_EmptyFetchKeepsFile ==
    \A f \in pipeline.processed :
        NoRecords(pipeline.fetched[f]) =>
            /\ CleanedFiles[f] = pipeline.before[f]
            /\ pipeline.origin[f] < pipeline.run
            /\ pipeline.pc = "failed" =>
                  \/ pipeline.err = HTTPError
                  \/ \E g \in pipeline.processed :
                        /\ ~NoRecords(pipeline.fetched[g])
                        /\ pipeline.origin[g] < pipeline.run
            /\ pipeline.processed = Families /\ pipeline.pc # "failed" =>
                  pipeline.pc = "success"

\* The engine has built its features from a biometric file that the first pipeline
\* run wrote and the second, which fetched no biometric record and reported
\* success, left alone, and from a demographic and an enrolment file of the second
C13_Witness ==
    /\ pc = "built"
    /\ frames.df.rows # <<>>
    /\ pipeline.pc = "success"
    /\ pipeline.run = 2
    /\ NoRecords(pipeline.fetched["bio"])
    /\ bioFile = pipeline.before["bio"]
    /\ pipeline.origin["bio"] = 1
    /\ pipeline.origin["demo"] = 2
    /\ pipeline.origin["enrol"] = 2
    /\ demoFile # pipeline.before["demo"]

\* The requests made for the pair of index p, in the order they were made
RequestsFor(p) == SelectSeq(fetch.requests, LAMBDA r : r.pair = p)

\* The records of the responses to requests, in the order of the requests
RECURSIVE RecordsOf(_)
RecordsOf(requests) ==
    IF requests = <<>> THEN <<>>
    ELSE Head(requests).records \o RecordsOf(Tail(requests))

\* The resource has an end for every (year, month): some page of it is empty
Finite == \A p \in DOMAIN Pairs : remote[p] # Endless

\* The pages of each pair are requested at offsets 0, limit, 2*limit, ..., the pairs
\* in loop order; only the last request of a pair can have come back empty, and a
\* pair the loop has left did end so; all_records holds the records of all
\* responses, once each and in request order; the frame of all_records is returned
\* only once every pair has ended, and nothing is returned before or after a
\* failing request
LoopInvariant ==
    /\ \A p \in DOMAIN Pairs :
          LET rs == RequestsFor(p)
          IN  /\ \A k \in DOMAIN rs : rs[k].offset = (k - 1) * limit
              /\ \A k \in DOMAIN rs : rs[k].records = <<>> => k = Len(rs)
              /\ p < fetch.pair \/ fetch.pc = "returned" =>
                    rs # <<>> /\ rs[Len(rs)].records = <<>>
              /\ p > fetch.pair => rs = <<>>
    /\ \A i, j \in DOMAIN fetch.requests :
          i < j => fetch.requests[i].pair <= fetch.requests[j].pair
    /\ fetch.all_records = RecordsOf(fetch.requests)
    /\ \A i, j \in DOMAIN fetch.all_records :
          i # j => fetch.all_records[i] # fetch.all_records[j]
    /\ fetch.pc = "returned" => fetch.df = DataFrame(fetch.all_records) /\ Finite
    /\ fetch.pc # "returned" => ~fetch.df.exists

\* C14: for each (year, month) the pages are requested at offsets 0, limit,
\* 2*limit, ... up to the first page without records, every record of the earlier
\* pages appended exactly once in request order; the fetch returns only if every
\* (year, month) came to an empty page, and when every one does it ends, by
\* returning or by the exception of a failing request, which returns nothing.
C14_PaginationLoop ==
    /\ []LoopInvariant
    /\ Finite ~> fetch.pc \in {"returned", "raised"}

\* The fetch has returned after three requests for one pair, two of them with
\* records and the second page short, and a single request for another
C14_Witness ==
    /\ fetch.pc = "returned"
    /\ \E p, q \in DOMAIN Pairs :
          /\ Len(RequestsFor(p)) = 3
          /\ Len(RequestsFor(p)[2].records) < limit
          /\ Len(RequestsFor(q)) = 1
    /\ Len(fetch.df.records) = MaxTotal

=============================================================================
